---- MODULE Spec2Model ----
(***************************************************************************)
(* Model of Text2D (src/Src/text2d.py): the bitmap font loader             *)
(* (import_font_bmp) and the text layout engine (get_text_vertex_uv,       *)
(* get_text_extents, set_font_size, update_screen_size).                   *)
(*                                                                         *)
(* Numbers.  Python computes positions and UVs in floating point.  Every   *)
(* value the code computes from integer inputs is a multiple of 1/2        *)
(* (positions: font_size_px / 2) or of 1/16000 (UVs: k/16, 0.5/16, 0.995,  *)
(* 0.995/16), so the model keeps them exactly as integers:                 *)
(*   a position p is stored as PosScale * p   (PosScale = 2)               *)
(*   a UV       t is stored as UvScale  * t   (UvScale  = 16000)           *)
(* A string is the sequence of its character codes (ord(c)).               *)
(***************************************************************************)
EXTENDS Integers, Sequences, FiniteSets, TLC

VARIABLES
    font_size_px,   \* self.font_size_px
    f_mrg,          \* self.f_mrg
    scr_w,          \* self.scr_w
    scr_h,          \* self.scr_h
    a_screensize,   \* text2d_shader['a_screensize'], << >> while never set
    contents,       \* bytes of the file at self.font_bmp_path
    font_img,       \* self.font_img: [shape, data]
    call,           \* the last method called and its arguments
    ret,            \* what it returned: (verts, uvs), scaled by PosScale and
                    \* UvScale, or the extents (wid, hgt), scaled by PosScale
    exc,            \* the exception it raised, "none" if it returned
    sdata,          \* import_font_bmp's local sdata at its last run
    base            \* history: the first get_text_vertex_uv call of the run

vars == <<font_size_px, f_mrg, scr_w, scr_h, a_screensize, contents,
          font_img, call, ret, exc, sdata, base>>

(***************************************************************************)
(* Bounds of the model.                                                    *)
(***************************************************************************)
MaxLen == 2
MaxCode == 300
MaxDim == 2

(***************************************************************************)
(* Fixed-point scales and the atlas grid.                                  *)
(***************************************************************************)
PosScale == 2
GridDim == 16
FirstCode == 32
UvScale == GridDim * 1000
\* 0.995, 0.5 / 16. and 0.995 / 16. in units of 1/UvScale
UvTop == 15920
UvHalfCell == 500
UvCellHgt == 995

SeqsUpTo(S, n) == UNION {[1..m -> S] : m \in 0..n}

Min(S) == CHOOSE m \in S : \A o \in S : m <= o
Max(S) == CHOOSE m \in S : \A o \in S : m >= o

(***************************************************************************)
(* get_text_vertex_uv, lines 170-223.                                      *)
(***************************************************************************)
\* f_w = self.font_size_px / 2, in units of 1/PosScale
f_w == font_size_px

up_left(i, pos_x, pos_y) ==
    <<PosScale * pos_x + i * f_w, PosScale * (pos_y + font_size_px)>>

up_right(i, pos_x, pos_y) ==
    <<PosScale * pos_x + i * f_w + f_w + PosScale * f_mrg,
      PosScale * (pos_y + font_size_px)>>

down_right(i, pos_x, pos_y) ==
    <<up_right(i, pos_x, pos_y)[1], PosScale * pos_y>>

down_left(i, pos_x, pos_y) ==
    <<up_left(i, pos_x, pos_y)[1], PosScale * pos_y>>

\* row = (ascii_code - 32) // 16 (floor division)
RowNoOffset(ascii_code) == ascii_code \div GridDim
Row(ascii_code) == (ascii_code - FirstCode) \div GridDim

\* col = ascii_code % 16
ColOneBased(ascii_code) == (ascii_code % GridDim) + 1
Col(ascii_code) == ascii_code % GridDim

\* uv_x /= 16. ; uv_y /= 16.
uv_x(ascii_code) == Col(ascii_code) * (UvScale \div GridDim)
uv_y(ascii_code) == Row(ascii_code) * (UvScale \div GridDim)

uv_up_left(c) == <<uv_x(c), UvTop - uv_y(c)>>
uv_up_right(c) == <<uv_x(c) + UvHalfCell, UvTop - uv_y(c)>>
uv_down_right(c) == <<uv_up_right(c)[1], UvTop - (uv_y(c) + UvCellHgt)>>
uv_down_left(c) == <<uv_x(c), uv_down_right(c)[2]>>

\* the six verts.append calls of one loop iteration
VertsNoMargin(i, pos_x, pos_y) ==
    <<up_left(i, pos_x, pos_y), down_left(i, pos_x, pos_y),
      <<up_left(i, pos_x, pos_y)[1] + f_w, up_left(i, pos_x, pos_y)[2]>>,
      <<up_left(i, pos_x, pos_y)[1] + f_w, PosScale * pos_y>>,
      <<up_left(i, pos_x, pos_y)[1] + f_w, up_left(i, pos_x, pos_y)[2]>>,
      down_left(i, pos_x, pos_y)>>
CharVerts(i, pos_x, pos_y) ==
    <<up_left(i, pos_x, pos_y), down_left(i, pos_x, pos_y),
      up_right(i, pos_x, pos_y),
      down_right(i, pos_x, pos_y), up_right(i, pos_x, pos_y),
      down_left(i, pos_x, pos_y)>>

\* the six uvs.append calls of one loop iteration
UvsClockwise(c) ==
    <<uv_up_left(c), uv_up_right(c), uv_down_right(c),
      uv_down_right(c), uv_down_left(c), uv_up_left(c)>>
CharUvs(c) ==
    <<uv_up_left(c), uv_down_left(c), uv_up_right(c),
      uv_down_right(c), uv_up_right(c), uv_down_left(c)>>

\* the loop over enumerate(string), from index i on (i is 0-based)
RECURSIVE LayoutLoop(_, _, _, _, _, _)
LayoutLoop(string, i, pos_x, pos_y, verts, uvs) ==
    IF i >= Len(string)
    THEN [verts |-> verts, uvs |-> uvs]
    ELSE LayoutLoop(string, i + 1, pos_x, pos_y,
                    verts \o CharVerts(i, pos_x, pos_y),
                    uvs \o CharUvs(string[i + 1]))

LayoutScreenSpace(string, pos_x, pos_y) ==
    LET r == LayoutLoop(string, 0, pos_x, pos_y, << >>, << >>)
    IN  [verts |-> [k \in DOMAIN r.verts |->
                        <<r.verts[k][1] - scr_w, r.verts[k][2] - scr_h>>],
         uvs |-> r.uvs]
get_text_vertex_uv(string, pos_x, pos_y) ==
    LayoutLoop(string, 0, pos_x, pos_y, << >>, << >>)

(***************************************************************************)
(* get_text_extents, lines 117-127: (wid, hgt), in units of 1/PosScale.    *)
(***************************************************************************)
get_text_extents(text_string) ==
    LET hgt == font_size_px
    IN  <<Len(text_string) * (hgt + PosScale * f_mrg), PosScale * hgt>>

(***************************************************************************)
(* import_font_bmp, lines 129-168.  contents is the byte sequence of the   *)
(* file; Python's contents[k] is contents[k + 1] here.                     *)
(***************************************************************************)
Byte(c, k) == c[k + 1]

\* struct.unpack("I", ...) of the four bytes at offset k (little-endian)
Unpack32(c, k) ==
    Byte(c, k) + 256 * Byte(c, k + 1) + 65536 * Byte(c, k + 2)
        + 16777216 * Byte(c, k + 3)

\* sdata = contents[10]
StartOfData(c) == Byte(c, 10)

\* the values of i in range(start, fsize, 3)
PixRange(start, fsize) ==
    {start + 3 * n : n \in 0..((fsize - start + 2) \div 3 - 1)}

\* pix_lst after the loop: the n-th triple is read at start + 3n
PixLst(c, start, fsize) ==
    [n \in 1..Cardinality(PixRange(start, fsize)) |->
        <<Byte(c, start + 3 * (n - 1)), Byte(c, start + 3 * (n - 1) + 1),
          Byte(c, start + 3 * (n - 1) + 2)>>]

\* im.reshape((f_wid, f_hgt, bytes_px)) needs as many numbers as it holds
ReshapeOk(n_triples, f_wid, f_hgt, bytes_px) ==
    3 * n_triples = f_wid * f_hgt * bytes_px

NoImg == [shape |-> << >>, data |-> << >>]

import_font_bmp(c) ==
    IF Len(c) < 29
    THEN [exc |-> "IndexError", img |-> NoImg, sdata |-> -1]
    ELSE
    LET fsize == Unpack32(c, 2)
        start == StartOfData(c)
        wid == Unpack32(c, 18)
        hgt == Unpack32(c, 22)
        bpp == Byte(c, 28)
        bytes_px == bpp \div 8
        rng == PixRange(start, fsize)
    IN  IF \E i \in rng : i + 2 >= Len(c)
        THEN [exc |-> "IndexError", img |-> NoImg, sdata |-> start]
        ELSE IF ~ReshapeOk(Cardinality(rng), wid, hgt, bytes_px)
        THEN [exc |-> "ValueError", img |-> NoImg, sdata |-> start]
        ELSE [exc |-> "none", sdata |-> start,
              img |-> [shape |-> <<wid, hgt, bytes_px>>,
                       data |-> PixLst(c, start, fsize)]]

(***************************************************************************)
(* The font files the model loads: a header that declares file size        *)
(* off + nbytes, data offset off, width w, height h and bpp bits per       *)
(* pixel, followed by pixel bytes, the whole cut short by trunc bytes.     *)
(***************************************************************************)
LeByte(v, k) == (v \div (256 ^ k)) % 256

BmpFile(w, h, bpp, off, nbytes, trunc) ==
    [k \in 1..(off + nbytes - trunc) |->
        LET o == k - 1
        IN  CASE o = 0 -> 66
              [] o = 1 -> 77
              [] o \in 2..5 -> LeByte(off + nbytes, o - 2)
              [] o \in 10..13 -> LeByte(off, o - 10)
              [] o = 14 -> 40
              [] o \in 18..21 -> LeByte(w, o - 18)
              [] o \in 22..25 -> LeByte(h, o - 22)
              [] o = 26 -> 1
              [] o = 28 -> bpp
              [] o >= off -> 255 - ((o - off) % 4) * 85
              [] OTHER -> 0]

Dims == 1..MaxDim
Depths == {24, 32}
Offsets == {54, 258}
Slack == {-3, 0, 1, 3}

FontFiles ==
    {BmpFile(w, h, bpp, off, 3 * w * h + d, trunc) :
        w \in Dims, h \in Dims, bpp \in Depths, off \in Offsets,
        d \in Slack, trunc \in {0, 1}}

\* the font shipped with the class, stood in for by a 2 x 2 24-bit bitmap
DefaultBmp == BmpFile(2, 2, 24, 54, 12, 0)

(***************************************************************************)
(* State after Text2D() (lines 58-79) and the methods as steps.            *)
(***************************************************************************)
NoCall(op) == [op |-> op, string |-> << >>, pos_x |-> 0, pos_y |-> 0]

NoRet == [verts |-> << >>, uvs |-> << >>, extents |-> << >>]

NoBase == [set |-> FALSE, string |-> << >>, pos_x |-> 0, pos_y |-> 0,
           size |-> 0, mrg |-> 0, scr |-> << >>, verts |-> << >>,
           uvs |-> << >>]

Init ==
    /\ font_size_px = 12
    /\ f_mrg = 0
    /\ scr_w = 500
    /\ scr_h = 500
    /\ a_screensize = << >>
    /\ contents = DefaultBmp
    /\ font_img = import_font_bmp(DefaultBmp).img
    /\ sdata = import_font_bmp(DefaultBmp).sdata
    /\ call = NoCall("__init__")
    /\ ret = NoRet
    /\ exc = "none"
    /\ base = NoBase

\* set_font_bmp_path, lines 81-85: the path now names a file of bytes file
set_font_bmp_path(file) ==
    LET r == import_font_bmp(file)
    IN  /\ contents' = file
        /\ font_img' = IF r.exc = "none" THEN r.img ELSE font_img
        /\ sdata' = r.sdata
        /\ exc' = r.exc
        /\ call' = NoCall("set_font_bmp_path")
        /\ ret' = NoRet
        /\ UNCHANGED <<font_size_px, f_mrg, scr_w, scr_h, a_screensize>>

\* set_font_size, lines 92-94
set_font_size(new_size) ==
    /\ font_size_px' = new_size
    /\ call' = NoCall("set_font_size")
    /\ ret' = NoRet
    /\ exc' = "none"
    /\ UNCHANGED <<f_mrg, scr_w, scr_h, a_screensize, contents, font_img,
                   sdata>>

\* self.f_mrg is a plain attribute (line 64, "default 0px"): the caller
\* assigns it
set_f_mrg(new_mrg) ==
    /\ f_mrg' = new_mrg
    /\ call' = NoCall("f_mrg")
    /\ ret' = NoRet
    /\ exc' = "none"
    /\ UNCHANGED <<font_size_px, scr_w, scr_h, a_screensize, contents,
                   font_img, sdata>>

\* update_screen_size, lines 96-101
update_screen_size(new_width, new_height) ==
    /\ scr_w' = new_width
    /\ scr_h' = new_height
    /\ a_screensize' = <<new_width, new_height>>
    /\ call' = NoCall("update_screen_size")
    /\ ret' = NoRet
    /\ exc' = "none"
    /\ UNCHANGED <<font_size_px, f_mrg, contents, font_img, sdata>>

\* a call of get_text_vertex_uv, lines 170-223
text_vertex_uv(string, pos_x, pos_y) ==
    LET r == get_text_vertex_uv(string, pos_x, pos_y)
    IN  /\ ret' = [verts |-> r.verts, uvs |-> r.uvs, extents |-> << >>]
        /\ call' = [op |-> "get_text_vertex_uv", string |-> string,
                    pos_x |-> pos_x, pos_y |-> pos_y]
        /\ exc' = "none"
        /\ UNCHANGED <<font_size_px, f_mrg, scr_w, scr_h, a_screensize,
                       contents, font_img, sdata>>

\* a call of get_text_extents, lines 117-127
text_extents(text_string) ==
    /\ ret' = [verts |-> << >>, uvs |-> << >>,
               extents |-> get_text_extents(text_string)]
    /\ call' = [op |-> "get_text_extents", string |-> text_string,
                pos_x |-> 0, pos_y |-> 0]
    /\ exc' = "none"
    /\ UNCHANGED <<font_size_px, f_mrg, scr_w, scr_h, a_screensize,
                   contents, font_img, sdata>>

(***************************************************************************)
(* Spec: the layout engine driven by any caller.                           *)
(***************************************************************************)
\* a control character, 'H', 'i', and a code beyond the 16 x 16 grid
SampleCodes == {10, 72, 105, 300}
Strings == SeqsUpTo(SampleCodes, MaxLen)
Xs == {0, 10}
Ys == {10}
FontSizes == {0, 7, 16}
Margins == {0, 2}
Screens == {<<800, 600>>}
\* one text of each length
ExtentTexts == {SubSeq(<<72, 105, 72, 105>>, 1, n) : n \in 0..MaxLen}

SetFontSize == \E n \in FontSizes : set_font_size(n) /\ UNCHANGED base

SetMargin == \E m \in Margins : set_f_mrg(m) /\ UNCHANGED base

UpdateScreenSize ==
    \E wh \in Screens : update_screen_size(wh[1], wh[2]) /\ UNCHANGED base

GetTextVertexUv ==
    \E s \in Strings, x \in Xs, y \in Ys :
        text_vertex_uv(s, x, y) /\ UNCHANGED base

GetTextExtents == \E s \in ExtentTexts : text_extents(s) /\ UNCHANGED base

Next ==
    \/ SetFontSize
    \/ SetMargin
    \/ UpdateScreenSize
    \/ GetTextVertexUv
    \/ GetTextExtents

Spec == Init /\ [][Next]_vars

(***************************************************************************)
(* SpecGlyph: get_text_vertex_uv on every one-character string.            *)
(***************************************************************************)
GlyphStrings == {<<c>> : c \in 0..MaxCode}
GlyphSizes == {12, 16}

GlyphSetFontSize == \E n \in GlyphSizes : set_font_size(n) /\ UNCHANGED base

GlyphLayout ==
    \E s \in GlyphStrings : text_vertex_uv(s, 10, 10) /\ UNCHANGED base

GlyphNext == GlyphSetFontSize \/ GlyphLayout

SpecGlyph == Init /\ [][GlyphNext]_vars

(***************************************************************************)
(* SpecFrame: the engine with the first get_text_vertex_uv call of the run *)
(* kept in the history variable base.                                      *)
(***************************************************************************)
FrameStrings == {<<72>>, <<72, 105>>}
FrameSizes == {12, 16}
FrameScreens == {<<500, 500>>, <<800, 600>>}

FrameSetFontSize == \E n \in FrameSizes : set_font_size(n) /\ UNCHANGED base

FrameSetMargin == \E m \in Margins : set_f_mrg(m) /\ UNCHANGED base

FrameUpdateScreenSize ==
    \E wh \in FrameScreens :
        update_screen_size(wh[1], wh[2]) /\ UNCHANGED base

FrameLayout ==
    \E s \in FrameStrings, x \in Xs, y \in Ys :
        /\ text_vertex_uv(s, x, y)
        /\ base' = IF base.set THEN base
                   ELSE [set |-> TRUE, string |-> s, pos_x |-> x,
                         pos_y |-> y, size |-> font_size_px, mrg |-> f_mrg,
                         scr |-> <<scr_w, scr_h>>, verts |-> ret'.verts,
                         uvs |-> ret'.uvs]

FrameExtents == \E s \in FrameStrings : text_extents(s) /\ UNCHANGED base

FrameNext ==
    \/ FrameSetFontSize
    \/ FrameSetMargin
    \/ FrameUpdateScreenSize
    \/ FrameLayout
    \/ FrameExtents

SpecFrame == Init /\ [][FrameNext]_vars

(***************************************************************************)
(* SpecLoad: set_font_bmp_path on each file of FontFiles.                  *)
(***************************************************************************)
LoadFont == \E f \in FontFiles : set_font_bmp_path(f) /\ UNCHANGED base

LoadNext == LoadFont

SpecLoad == Init /\ [][LoadNext]_vars

(***************************************************************************)
(* Claims.                                                                 *)
(***************************************************************************)
InGrid(c) == c >= FirstCode /\ c <= 255
AllInGrid(string) == \A k \in DOMAIN string : InGrid(string[k])
IsLayout == call.op = "get_text_vertex_uv"

\* C1: a string with a character code below 32 or above 255, at any index,
\* makes get_text_vertex_uv fail with GlyphRangeError and return no
\* positions and no texCoords.
C1_RangeErrorNoOutput ==
    (IsLayout /\ ~AllInGrid(call.string)) =>
        /\ exc = "GlyphRangeError"
        /\ ret.verts = << >>
        /\ ret.uvs = << >>

\* the decode failure of import_font_bmp is the reshape's
DecodeError == "ValueError"
IsLoad == call.op = "set_font_bmp_path"
DeclSize == Unpack32(contents, 2)
DeclStart == Unpack32(contents, 10)
DeclW == Unpack32(contents, 18)
DeclH == Unpack32(contents, 22)
\* 3-byte triples from the declared data start to the declared file size
DeclTriples == (DeclSize - DeclStart + 2) \div 3

\* C2: a file whose pixel region is exactly W*H*3 bytes loads and yields
\* W*H RGB entries; the same file cut by one byte, and any file whose triple
\* count differs from W*H, fails with DecodeError.
C2_LoadContract ==
    IsLoad =>
        /\ (DeclSize - DeclStart = 3 * DeclW * DeclH
                /\ Len(contents) = DeclSize) =>
               /\ exc = "none"
               /\ Len(font_img.data) = DeclW * DeclH
               /\ \A n \in DOMAIN font_img.data : Len(font_img.data[n]) = 3
               /\ font_img.shape[1] * font_img.shape[2] = DeclW * DeclH
        /\ (DeclSize - DeclStart = 3 * DeclW * DeclH
                /\ Len(contents) = DeclSize - 1) => exc = DecodeError
        /\ DeclTriples # DeclW * DeclH => exc = DecodeError

\* the bounding box of a sequence of points
BoundsOf(pts) ==
    LET xs == {pts[k][1] : k \in DOMAIN pts}
        ys == {pts[k][2] : k \in DOMAIN pts}
    IN  <<Max(xs) - Min(xs), Max(ys) - Min(ys)>>

\* C3: for a non-empty string of codes in [32,255], pixelHeight > 0 and
\* lateralMarginPx >= 0, get_text_extents returns (max x - min x,
\* max y - min y) of the positions get_text_vertex_uv produces for the same
\* string under the same style.
C3_ExtentsAreLayoutBounds ==
    (/\ call.op = "get_text_extents"
     /\ call.string # << >>
     /\ AllInGrid(call.string)
     /\ font_size_px > 0
     /\ f_mrg >= 0) =>
        ret.extents = BoundsOf(get_text_vertex_uv(call.string, 0, 0).verts)

\* the corners of a character's quad in the order they are emitted
CornerOrder == <<"ul", "dl", "ur", "dr", "ur", "dl">>

\* corner of the screen quad of character i, in units of 1/PosScale
ExpectPos(corner, i) ==
    <<2 * call.pos_x + i * font_size_px
        + (IF corner \in {"ur", "dr"} THEN font_size_px + 2 * f_mrg ELSE 0),
      2 * call.pos_y
        + (IF corner \in {"ul", "ur"} THEN 2 * font_size_px ELSE 0)>>

\* corner of the atlas cell of code c, in units of 1/16000
ExpectUv(corner, c) ==
    <<1000 * ((c - 32) % 16) + (IF corner \in {"ur", "dr"} THEN 500 ELSE 0),
      15920 - 1000 * ((c - 32) \div 16)
        - (IF corner \in {"dl", "dr"} THEN 995 ELSE 0)>>

\* C4: for a string s of codes in [32,255], positions and texCoords both
\* have length 6 * len(s), and at every index k both hold the same corner
\* (upLeft, downLeft, upRight, downRight, upRight, downLeft) of the same
\* character.
C4_LockStep ==
    (IsLayout /\ AllInGrid(call.string)) =>
        /\ Len(ret.verts) = 6 * Len(call.string)
        /\ Len(ret.uvs) = 6 * Len(call.string)
        /\ \A k \in 1..(6 * Len(call.string)) :
             LET i == (k - 1) \div 6
                 corner == CornerOrder[((k - 1) % 6) + 1]
             IN  /\ ret.verts[k] = ExpectPos(corner, i)
                 /\ ret.uvs[k] = ExpectUv(corner, call.string[i + 1])

C4_Witness ==
    /\ IsLayout
    /\ call.string = <<72, 105>>
    /\ Len(ret.verts) = 12
    /\ Len(ret.uvs) = 12
    /\ ret.uvs[8] = <<9000, 10925>>
    /\ ret.verts[8] = ExpectPos("dl", 1)

\* C5: get_text_vertex_uv changes no style, viewport or atlas state, and
\* after any calls of update_screen_size and get_text_vertex_uv it returns
\* for the same text and anchor under the same style exactly what the first
\* call returned.
C5_LayoutFrame ==
    /\ [](  (/\ base.set
             /\ IsLayout
             /\ call.string = base.string
             /\ call.pos_x = base.pos_x
             /\ call.pos_y = base.pos_y
             /\ font_size_px = base.size
             /\ f_mrg = base.mrg) =>
                (ret.verts = base.verts /\ ret.uvs = base.uvs)  )
    /\ [][call'.op = "get_text_vertex_uv" =>
            UNCHANGED <<font_size_px, f_mrg, scr_w, scr_h, a_screensize,
                        contents, font_img>>]_vars

C5_Witness ==
    /\ base.set
    /\ IsLayout
    /\ call.string = base.string
    /\ call.pos_x = base.pos_x
    /\ call.pos_y = base.pos_y
    /\ font_size_px = base.size
    /\ f_mrg = base.mrg
    /\ base.scr = <<500, 500>>
    /\ a_screensize = <<800, 600>>
    /\ Len(base.verts) = 12
    /\ ret.verts = base.verts

\* C6: in every reachable state the stored pixelHeight is strictly
\* positive (set_font_size rejects a size <= 0).
C6_PixelHeightPositive == font_size_px > 0

\* C7: for a string of codes in [32,255], every texCoord emitted has both
\* components in [0,1].
C7_UvInUnitSquare ==
    (IsLayout /\ AllInGrid(call.string)) =>
        /\ Len(ret.uvs) = 6 * Len(call.string)
        /\ \A k \in DOMAIN ret.uvs :
             /\ 0 <= ret.uvs[k][1] /\ ret.uvs[k][1] <= UvScale
             /\ 0 <= ret.uvs[k][2] /\ ret.uvs[k][2] <= UvScale

C7_Witness ==
    /\ IsLayout
    /\ call.string = <<255>>
    /\ ret.uvs[4] = <<15500, 1925>>

C9_AtlasCell ==
    (IsLayout /\ Len(call.string) = 1 /\ AllInGrid(call.string)) =>
        LET c == call.string[1]
            u == ret.uvs[1][1]
            v == 15920 - ret.uvs[1][2]
        IN  /\ u = 1000 * ((c - 32) % 16)
            /\ v = 1000 * ((c - 32) \div 16)
            /\ c = 32 => (u = 0 /\ v = 0)
            /\ c = 47 => (u = 15000 /\ v = 0)

C9_Witness ==
    /\ IsLayout
    /\ call.string = <<47>>
    /\ ret.uvs[1] = <<15000, 15920>>

\* C10: import_font_bmp starts reading pixels at the little-endian 32-bit
\* value of bytes 10..13 of the file.
C10_DataStartIsU32 == IsLoad => sdata = DeclStart

====
